---- MODULE Spec2Model ----
(***************************************************************************)
(* Model of the webhook receiver (webhook_server_enhanced.py) and of the   *)
(* batch-erasure run (Sendgrid-Erase/erase_emails_batch.py).               *)
(*                                                                         *)
(* Spec       the receiver handling one request at a time, well-behaved    *)
(*            file system, process restarts included.                      *)
(* SpecLong   the receiver from an empty store, JSON POSTs and queries     *)
(*            only, long enough to pass the 10-record window.              *)
(* SpecFault  Spec plus an unreadable mirror file and a process killed in  *)
(*            the middle of a rewrite.                                     *)
(* SpecConc   the receiver with a thread per request (Flask's development  *)
(*            server is threaded), the handlers split at their file        *)
(*            operations down to the fstat and the reads of json.load,     *)
(*            descriptors staying with the file they opened.               *)
(* SpecMonitor  monitor_results of batch_verification.py.                  *)
(* SpecRead   read_emails_from_file on a .csv or a plain-text path.        *)
(* SpecErase  one run of process_batch against two integrations.           *)
(***************************************************************************)
EXTENDS Integers, Sequences, FiniteSets, TLC

VARIABLES
    callbacks_received, \* the in-memory list (module global)
    file,               \* verifymyage_callbacks.json on disk
    req,                \* the request handled by the last step
    resp,               \* the response to it
    io,                 \* the file operations the last request performed
    now,                \* clock: datetime.now() of the next record
    lifetime,           \* history: records received since process start
    sinceClear,         \* history: records received since start or last clear
    lastAck,            \* history: last acknowledged callback_id since start or clear
    lastAckLife,        \* history: last acknowledged callback_id since start
    posted,             \* history: records created since the store was last empty
    acked,              \* history: records acknowledged with 200 since then
    quiet,              \* history: no POST or clear handled since process start
    diskAtStart,        \* history: records on disk when the process started
    restarts,           \* history: number of process restarts
    threads,            \* SpecConc: the handlers in flight, their positions and locals
    raced,              \* SpecConc: records whose handlers both loaded before either wrote
    overlap,            \* SpecConc: two handlers have been in flight together
    orphans,            \* SpecConc: removed files that a descriptor still holds open
    asked,              \* SpecConc: GET /webhooks and clear requests that have arrived
    keys,               \* SpecErase: which of api_key_1, api_key_2 is set
    epc,                \* SpecErase: position of process_batch
    emails,             \* SpecErase: the addresses read from the input file
    wire,               \* SpecErase: the outbound HTTP calls, in order
    results,            \* SpecErase: process_batch's results dict
    report,             \* SpecErase: the JSON record written by generate_report
    mpc,                \* SpecMonitor: position of monitor_results
    max_wait,           \* SpecMonitor: its argument
    elapsed,            \* SpecMonitor: its local
    queries,            \* SpecMonitor: the answers to its GET /webhooks calls, in order
    mret,               \* SpecMonitor: its return value
    downloaded,         \* SpecMonitor: _download_results was called
    filepath,           \* SpecRead: the argument of read_emails_from_file
    on_disk,            \* SpecRead: the input file exists
    readable,           \* SpecRead: the input file can be opened and decoded
    text_in,            \* SpecRead: the text of the input file, one character per element
    rpc,                \* SpecRead: position of read_emails_from_file
    printed,            \* SpecRead: the error it printed before sys.exit(1)
    out                 \* SpecRead: the list it returns

rvars == <<callbacks_received, file, req, resp, io, now, lifetime, sinceClear,
           lastAck, lastAckLife, posted, acked, quiet, diskAtStart, restarts>>
cvars == <<threads, raced, overlap, orphans, asked>>
evars == <<keys, epc, emails, wire, results, report>>
mvars == <<mpc, max_wait, elapsed, queries, mret, downloaded>>
fvars == <<filepath, on_disk, readable, text_in, rpc, printed, out>>
xvars == <<mvars, fvars>>
vars == <<rvars, cvars, evars, xvars>>

\* ---------------------------------------------------------------- bounds

MaxPosts == 3        \* records created in Spec / SpecFault
MaxLong == 11        \* records created in SpecLong
MaxRestarts == 2     \* process restarts
MaxConc == 2         \* records created in SpecConc
MaxHandlers == 3     \* handler threads in flight together in SpecConc
MaxAsked == 2        \* GET /webhooks and POST /webhooks/clear requests in SpecConc

\* ---------------------------------------------------------------- program constants

ShowLast == 10       \* all_callbacks[-10:]

\* ---------------------------------------------------------------- inputs

CTypes == {"application/json", "text/plain"}
\* request bodies: nothing; a JSON object; a JSON object whose "results" list
\* holds a non-object entry; text that is not JSON
Bodies == {"", "{\"a\":1}", "{\"results\":[1]}", "not json"}
JsonBodies == {"{\"a\":1}", "{\"results\":[1]}"}

\* ---------------------------------------------------------------- helpers

IsPrefix(s, t) == Len(s) <= Len(t) /\ SubSeq(t, 1, Len(s)) = s

Min(a, b) == IF a < b THEN a ELSE b

\* mutant of LastN: s[:n], the first records instead of the last
FirstN(s, n) == SubSeq(s, 1, Min(n, Len(s)))

\* Python's s[-n:]
LastN(s, n) == SubSeq(s, Len(s) - Min(n, Len(s)) + 1, Len(s))

Range(s) == {s[i] : i \in 1..Len(s)}

\* ---------------------------------------------------------------- the mirror file

\* st: "absent", "valid" (a JSON array: recs) or "corrupt" (does not parse);
\* len: length of the text in characters; readable: open(..., 'r') succeeds;
\* text: the pieces the text is made of, in order: a piece holds the
\* characters of json.dump(recs, indent=2) from the end of the piece before it
\* (from 0 for the first) up to position to;
\* ino: which file the name stands for (0: none), the timestamp of the record
\* whose open(..., 'w') created it, -1 for the file an earlier run left
NoFile ==
    [st |-> "absent", recs |-> <<>>, len |-> 0, text |-> <<>>, readable |-> TRUE, ino |-> 0]

\* json.dump(..., indent=2), line 33: the characters of one record that do not
\* depend on the clock reading, the client's own headers, the content type or
\* the body (indentation, keys, date and time to the second, method, url,
\* remote_addr, Host), for a local client
BaseLen == 268

\* datetime.now().isoformat(), line 108: ".ffffff" follows the seconds unless
\* the clock reading has microsecond = 0
FractionLen(micro) == IF micro THEN 7 ELSE 0

\* dict(request.headers), line 110: a client that names itself sends
\* "User-Agent": agent and "Accept": "*/*", one header per line
AgentLen(agent) == IF agent = "" THEN 0 ELSE 47 + Len(agent)

\* the characters of the body's length in the Content-Length header
Digits(n) == IF n < 10 THEN 1 ELSE 2

\* the length of the body a record's data was parsed from
BodyLen(data) == IF data.value = "{}" THEN 0 ELSE Len(data.value)

\* the characters of the "data" value, nested three levels deep
DataLen(data) ==
    CASE data.raw -> 28 + Len(data.value)
      [] data.value = "{}" -> 2
      [] data.value = "{\"a\":1}" -> 20
      [] data.value = "{\"results\":[1]}" -> 44

\* length of the text json.dump writes for one record of the array
RecLen(r) ==
    BaseLen + FractionLen(r.micro) + AgentLen(r.agent) + Len(r.ctype)
    + Digits(BodyLen(r.data)) + DataLen(r.data)

RECURSIVE SumLen(_)
SumLen(s) == IF s = <<>> THEN 0 ELSE RecLen(Head(s)) + SumLen(Tail(s))

\* length of the text json.dump writes for an array: "[]", or "[\n", the
\* records separated by ",\n", "\n]"
TextLen(s) == IF s = <<>> THEN 2 ELSE 4 + SumLen(s) + 2 * (Len(s) - 1)

\* the decimal digit d
DigitText(d) == SubSeq("0123456789", d + 1, d + 1)

\* str(n) for a number below 100
NumberText(n) == IF n < 10 THEN DigitText(n) ELSE DigitText(n \div 10) \o DigitText(n % 10)

\* datetime.now().isoformat(), line 108, for the clock reading t: readings of
\* one minute, a second apart
StampText(t, micro) ==
    "2026-10-31T01:02:" \o DigitText(t \div 10) \o DigitText(t % 10)
    \o (IF micro THEN ".500000" ELSE "")

\* request.host for a local client of run_server(port=5002)
HostText == "localhost:5002"

\* json.dump(..., indent=2) of dict(request.headers), line 110: Host, the
\* client's own headers, the content type and the length of the body
HeadersText(r) ==
    "{\n      \"Host\": \"" \o HostText \o "\",\n"
    \o (IF r.agent = "" THEN ""
        ELSE "      \"User-Agent\": \"" \o r.agent \o "\",\n      \"Accept\": \"*/*\",\n")
    \o "      \"Content-Type\": \"" \o r.ctype \o "\",\n"
    \o "      \"Content-Length\": \"" \o NumberText(BodyLen(r.data)) \o "\"\n    }"

\* json.dump(..., indent=2) of the "data" value
DataText(data) ==
    CASE data.raw -> "{\n      \"raw_data\": \"" \o data.value \o "\"\n    }"
      [] data.value = "{}" -> "{}"
      [] data.value = "{\"a\":1}" -> "{\n      \"a\": 1\n    }"
      [] data.value = "{\"results\":[1]}" ->
             "{\n      \"results\": [\n        1\n      ]\n    }"

\* json.dump(..., indent=2), line 33: the text of one record of the array
\* (lines 107-114 give the keys and their order)
RecordText(r) ==
    "  {\n    \"timestamp\": \"" \o StampText(r.timestamp, r.micro) \o "\",\n"
    \o "    \"method\": \"POST\",\n"
    \o "    \"headers\": " \o HeadersText(r) \o ",\n"
    \o "    \"url\": \"http://" \o HostText \o "/callback\",\n"
    \o "    \"remote_addr\": \"127.0.0.1\",\n"
    \o "    \"data\": " \o DataText(r.data) \o "\n  }"

RECURSIVE RecordsText(_)
RecordsText(s) ==
    IF Len(s) = 1 THEN RecordText(Head(s))
    ELSE RecordText(Head(s)) \o ",\n" \o RecordsText(Tail(s))

\* json.dump(callbacks, f, indent=2), line 33: the text written for an array
DumpText(s) == IF s = <<>> THEN "[]" ELSE "[\n" \o RecordsText(s) \o "\n]"

FileExists(f) == f.st # "absent"

\* load_callbacks: the array, or [] when the file is absent, unreadable or unparseable
LoadCallbacks(f) ==
    IF FileExists(f) /\ f.readable /\ f.st = "valid" THEN f.recs ELSE <<>>

\* the file operations of load_callbacks: os.path.exists, then open + json.load
LoadOps(f) == IF FileExists(f) THEN <<"exists", "read">> ELSE <<"exists">>

\* open(CALLBACKS_FILE, 'w'): truncates the file, or creates it as file id
OpenW(f, id) ==
    [st |-> "corrupt", recs |-> <<>>, len |-> 0, text |-> <<>>,
     readable |-> IF FileExists(f) THEN f.readable ELSE TRUE,
     ino |-> IF FileExists(f) THEN f.ino ELSE id]

\* the characters of json.dump(recs, indent=2) up to position to
Piece(recs, to) == [recs |-> recs, to |-> to]

\* the pieces of a text that reach beyond position a
From(text, a) ==
    LET Beyond(p) == p.to > a
    IN  SelectSeq(text, Beyond)

\* json.dump + close through a descriptor positioned at 0 (the text is shorter
\* than the buffers of the file object and goes out in one write): it replaces
\* the first bytes of the file; a longer text written meanwhile keeps its tail
WriteText(f, content) ==
    IF f.len > TextLen(content)
    THEN [f EXCEPT !.st = "corrupt", !.recs = <<>>,
                   !.text = <<Piece(content, TextLen(content))>> \o From(f.text, TextLen(content))]
    ELSE [f EXCEPT !.st = "valid", !.recs = content, !.len = TextLen(content),
                   !.text = <<Piece(content, TextLen(content))>>]

\* mutant of Appended: the loaded array is dropped
AppendedAlone(callbacks, rec) == <<rec>>

\* save_callback, line 31: callbacks.append(callback_data)
Appended(callbacks, rec) == Append(callbacks, rec)

\* save_callback, run without interruption
SaveCallback(f, rec) ==
    WriteText(OpenW(f, rec.timestamp), Appended(LoadCallbacks(f), rec))

\* mutant of RemoveFile: the file is left in place
RemoveFileSkipped(f) == f

\* os.path.exists + os.remove
RemoveFile(f) == NoFile

\* ---------------------------------------------------------------- POST /callback, pure parts

\* mutant of ParseBody: no fallback to the raw text
ParseBodyStrict(ct, body) ==
    IF body \in JsonBodies
    THEN [ok |-> TRUE, data |-> [raw |-> FALSE, value |-> body]]
    ELSE [ok |-> FALSE, data |-> [raw |-> FALSE, value |-> ""]]

\* lines 94-104: the data of the record, or a raised exception
ParseBody(ct, body) ==
    IF ct = "application/json"
    THEN IF body \in JsonBodies
         THEN [ok |-> TRUE, data |-> [raw |-> FALSE, value |-> body]]
         ELSE [ok |-> FALSE, data |-> [raw |-> FALSE, value |-> ""]]
    ELSE IF body = "" THEN [ok |-> TRUE, data |-> [raw |-> FALSE, value |-> "{}"]]
         ELSE IF body \in JsonBodies
              THEN [ok |-> TRUE, data |-> [raw |-> FALSE, value |-> body]]
              ELSE [ok |-> TRUE, data |-> [raw |-> TRUE, value |-> body]]

\* lines 107-114: the timestamp is the clock reading t, written with its
\* fraction when micro; of the headers, the content type and the client's name
CallbackRecord(t, micro, ct, agent, data) ==
    [timestamp |-> t, micro |-> micro, ctype |-> ct, agent |-> agent, data |-> data]

\* the record of a thread that handles no POST
NoRecord == CallbackRecord(0, TRUE, "", "", [raw |-> FALSE, value |-> ""])

\* the body a record's data was parsed from
BodyOf(data) == IF data.value = "{}" THEN "" ELSE data.value

\* lines 128-150: the console logging raises on a "results" entry that is no object
LoggingRaises(data) == ~data.raw /\ data.value = "{\"results\":[1]}"

Request(m, p, ct, b) == [method |-> m, path |-> p, ctype |-> ct, body |-> b]

Response(s, id, total, cbs) ==
    [status |-> s, callback_id |-> id, total |-> total, callbacks |-> cbs]

NoRequest == Request("", "", "", "")
NoResponse == Response(0, 0, 0, <<>>)

\* mutant of Ack: the list measured before the append
AckBeforeAppend(mem) == Response(200, Len(mem) - 1, 0, <<>>)

\* lines 155-160
Ack(mem) == Response(200, Len(mem), 0, <<>>)

\* lines 162-167
Error500 == Response(500, 0, 0, <<>>)

\* get_webhooks(), lines 173-179: the answer for the array loaded
AnswerOf(all_callbacks) ==
    Response(200, 0, Len(all_callbacks), LastN(all_callbacks, ShowLast))

\* lines 173-179
WebhooksResponse(f) == AnswerOf(LoadCallbacks(f))

\* ---------------------------------------------------------------- initial state

\* the receiver after start-up, with f in the place of the mirror file
RStart(f) ==
    /\ callbacks_received = <<>>
    /\ file = f
    /\ req = NoRequest
    /\ resp = NoResponse
    /\ io = <<>>
    /\ now = 1
    /\ lifetime = 0
    /\ sinceClear = 0
    /\ lastAck = 0
    /\ lastAckLife = 0
    /\ posted = <<>>
    /\ acked = <<>>
    /\ quiet = TRUE
    /\ diskAtStart = Len(LoadCallbacks(f))
    /\ restarts = 0

RInit == RStart(NoFile)

CInit ==
    /\ threads = <<>>
    /\ raced = {}
    /\ overlap = FALSE
    /\ orphans = {}
    /\ asked = 0

\* the erasure script is not running
EIdle ==
    /\ keys = [i \in {1, 2} |-> FALSE]
    /\ epc = "off"
    /\ emails = <<>>
    /\ wire = <<>>
    /\ results = <<>>
    /\ report = <<>>

\* monitor_results is not running
MIdle ==
    /\ mpc = "off"
    /\ max_wait = 0
    /\ elapsed = 0
    /\ queries = <<>>
    /\ mret = "none"
    /\ downloaded = FALSE

\* read_emails_from_file is not running
FIdle ==
    /\ filepath = ""
    /\ on_disk = FALSE
    /\ readable = FALSE
    /\ text_in = <<>>
    /\ rpc = "off"
    /\ printed = ""
    /\ out = <<>>

Init == RInit /\ CInit /\ EIdle /\ MIdle /\ FIdle

\* ---------------------------------------------------------------- handlers, one request at a time

\* callback(), POST branch (lines 91-167)
Post(ct, body, micro, agent, limit) ==
    LET p == ParseBody(ct, body)
        rec == CallbackRecord(now, micro, ct, agent, p.data)
        mem == Append(callbacks_received, rec)
    IN  /\ req' = Request("POST", "/callback", ct, body)
        /\ quiet' = FALSE
        /\ IF ~p.ok
           THEN /\ resp' = Error500
                /\ io' = <<>>
                /\ UNCHANGED <<callbacks_received, file, now, lifetime, sinceClear,
                               lastAck, lastAckLife, posted, acked>>
           ELSE /\ now < limit + 1
                /\ callbacks_received' = mem
                /\ file' = SaveCallback(file, rec)
                /\ io' = LoadOps(file) \o <<"write">>
                /\ now' = now + 1
                /\ lifetime' = lifetime + 1
                /\ sinceClear' = sinceClear + 1
                /\ posted' = Append(posted, rec)
                /\ IF LoggingRaises(p.data)
                   THEN /\ resp' = Error500
                        /\ UNCHANGED <<lastAck, lastAckLife, acked>>
                   ELSE /\ resp' = Ack(mem)
                        /\ lastAck' = Len(mem)
                        /\ lastAckLife' = Len(mem)
                        /\ acked' = Append(acked, rec)
        /\ UNCHANGED <<diskAtStart, restarts, cvars, evars, xvars>>

\* mutant of Probe: the count taken from the file instead of the list
ProbeReadingFile(m) ==
    /\ req' = Request(m, "/callback", "", "")
    /\ resp' = Response(200, 0, Len(LoadCallbacks(file)), <<>>)
    /\ io' = LoadOps(file)
    /\ UNCHANGED <<callbacks_received, file, now, lifetime, sinceClear, lastAck,
                   lastAckLife, posted, acked, quiet, diskAtStart, restarts, cvars, evars, xvars>>

\* callback(), OPTIONS / HEAD / GET branches (lines 67-88)
Probe(m) ==
    /\ req' = Request(m, "/callback", "", "")
    /\ resp' = Response(200, 0, 0, <<>>)
    /\ io' = <<>>
    /\ UNCHANGED <<callbacks_received, file, now, lifetime, sinceClear, lastAck,
                   lastAckLife, posted, acked, quiet, diskAtStart, restarts, cvars, evars, xvars>>

\* home(), health(), test() (lines 35-58, 196-211): answers that touch no state
OtherEndpoint(m, p) ==
    /\ req' = Request(m, p, "", "")
    /\ resp' = Response(200, 0, 0, <<>>)
    /\ io' = <<>>
    /\ UNCHANGED <<callbacks_received, file, now, lifetime, sinceClear, lastAck,
                   lastAckLife, posted, acked, quiet, diskAtStart, restarts, cvars, evars, xvars>>

\* get_webhooks() (lines 169-179)
GetWebhooks ==
    /\ req' = Request("GET", "/webhooks", "", "")
    /\ resp' = WebhooksResponse(file)
    /\ io' = LoadOps(file)
    /\ UNCHANGED <<callbacks_received, file, now, lifetime, sinceClear, lastAck,
                   lastAckLife, posted, acked, quiet, diskAtStart, restarts, cvars, evars, xvars>>

\* mutant of ClearWebhooks: the file is removed, the list is left as it is
ClearWebhooksKeepingList ==
    /\ req' = Request("POST", "/webhooks/clear", "", "")
    /\ file' = RemoveFile(file)
    /\ resp' = Response(200, 0, 0, <<>>)
    /\ io' = IF FileExists(file) THEN <<"exists", "remove">> ELSE <<"exists">>
    /\ sinceClear' = 0
    /\ lastAck' = 0
    /\ posted' = <<>>
    /\ acked' = <<>>
    /\ quiet' = FALSE
    /\ UNCHANGED <<callbacks_received, now, lifetime, lastAckLife, diskAtStart,
                   restarts, cvars, evars, xvars>>

\* clear_webhooks() (lines 181-194)
ClearWebhooks ==
    /\ req' = Request("POST", "/webhooks/clear", "", "")
    /\ callbacks_received' = <<>>
    /\ file' = RemoveFile(file)
    /\ resp' = Response(200, 0, 0, <<>>)
    /\ io' = IF FileExists(file) THEN <<"exists", "remove">> ELSE <<"exists">>
    /\ sinceClear' = 0
    /\ lastAck' = 0
    /\ posted' = <<>>
    /\ acked' = <<>>
    /\ quiet' = FALSE
    /\ UNCHANGED <<now, lifetime, lastAckLife, diskAtStart, restarts, cvars, evars, xvars>>

\* mutant of Restart: the list is loaded from the file at start
RestartReloading ==
    /\ restarts < MaxRestarts
    /\ restarts' = restarts + 1
    /\ callbacks_received' = LoadCallbacks(file)
    /\ req' = NoRequest
    /\ resp' = NoResponse
    /\ io' = <<>>
    /\ lifetime' = 0
    /\ sinceClear' = 0
    /\ lastAck' = 0
    /\ lastAckLife' = 0
    /\ quiet' = TRUE
    /\ diskAtStart' = Len(LoadCallbacks(file))
    /\ UNCHANGED <<file, now, posted, acked, cvars, evars, xvars>>

\* the process ends and is started again: the module global is rebuilt (line 15),
\* the file stays
Restart ==
    /\ restarts < MaxRestarts
    /\ restarts' = restarts + 1
    /\ callbacks_received' = <<>>
    /\ req' = NoRequest
    /\ resp' = NoResponse
    /\ io' = <<>>
    /\ lifetime' = 0
    /\ sinceClear' = 0
    /\ lastAck' = 0
    /\ lastAckLife' = 0
    /\ quiet' = TRUE
    /\ diskAtStart' = Len(LoadCallbacks(file))
    /\ UNCHANGED <<file, now, posted, acked, cvars, evars, xvars>>

\* the clock reading and the client of a request: ordinary and without
\* headers of its own, but application/json {"a":1} arrives at a clock reading
\* with microsecond = 0 and the text that is not JSON comes from curl
MicroOf(ct, b) == ~(ct = "application/json" /\ b = "{\"a\":1}")
AgentOf(ct, b) == IF b = "not json" THEN "curl/8.5.0" ELSE ""

\* the requests handled one at a time: every content type with every body
SeqPosts == {<<ct, b, MicroOf(ct, b), AgentOf(ct, b)>> : ct \in CTypes, b \in Bodies}

Next ==
    \/ \E q \in SeqPosts : Post(q[1], q[2], q[3], q[4], MaxPosts)
    \/ \E m \in {"GET", "HEAD", "OPTIONS"} : Probe(m)
    \/ \E p \in {"/", "/health", "/test"} : OtherEndpoint("GET", p)
    \/ GetWebhooks
    \/ ClearWebhooks
    \/ Restart

Spec == Init /\ [][Next]_vars

\* ---------------------------------------------------------------- file-system faults

\* the mirror file loses its read permission (it stays writable)
FileBecomesUnreadable ==
    /\ FileExists(file)
    /\ file.readable
    /\ file' = [file EXCEPT !.readable = FALSE]
    /\ UNCHANGED <<callbacks_received, req, resp, io, now, lifetime, sinceClear, lastAck,
                   lastAckLife, posted, acked, quiet, diskAtStart, restarts, cvars, evars, xvars>>

\* the process is killed inside save_callback between open(..., 'w') (line 32)
\* and json.dump (line 33), then started again
KilledInSave(ct, body) ==
    /\ ParseBody(ct, body).ok
    /\ restarts < MaxRestarts
    /\ restarts' = restarts + 1
    /\ file' = OpenW(file, now)
    /\ callbacks_received' = <<>>
    /\ req' = NoRequest
    /\ resp' = NoResponse
    /\ io' = <<>>
    /\ lifetime' = 0
    /\ sinceClear' = 0
    /\ lastAck' = 0
    /\ lastAckLife' = 0
    /\ quiet' = TRUE
    /\ diskAtStart' = 0
    /\ UNCHANGED <<now, posted, acked, cvars, evars, xvars>>

NextFault ==
    \/ Next
    \/ FileBecomesUnreadable
    \/ \E ct \in CTypes, b \in Bodies : KilledInSave(ct, b)

SpecFault == Init /\ [][NextFault]_vars

\* ---------------------------------------------------------------- concurrent request threads

\* the server starts a thread for every request (threaded=True is the default
\* of app.run, line 228); threads holds the handlers in flight, in the order
\* in which their requests arrived

Others(t) == DOMAIN threads \ {t}

\* a handler thread can be started
Free == Len(threads) < MaxHandlers

\* the handler of a request that has just arrived
NewThread(pc, rec) ==
    [pc |-> pc, rec |-> rec, local |-> <<>>, fd |-> 0, size |-> 0, buf |-> <<>>, ops |-> <<>>]

\* the handlers in flight once handler t has answered
Without(ths, t) == SubSeq(ths, 1, t - 1) \o SubSeq(ths, t + 1, Len(ths))

\* thread u is inside a POST /callback or a POST /webhooks/clear
Writing(u) == threads[u].pc \notin {"get_open", "get_stat", "get_read"}

\* descriptor i stands for the file that has the name
Named(i) == FileExists(file) /\ file.ino = i

\* the file behind descriptor i: the named file, or a removed file that lives
\* on for as long as a descriptor holds it
FileOf(i) == IF Named(i) THEN file ELSE CHOOSE o \in orphans : o.ino = i

\* the removed files that the descriptors of ths still hold
Held(os, ths) == {o \in os : \E u \in DOMAIN ths : ths[u].fd = o.ino}

\* json.load(f), line 23, is json.loads(f.read()), and f.read() on a file
\* opened at line 22 is FileIO.readall: fstat for the size of the file, then
\* read(2) into a buffer of that size plus one until a read returns nothing.
\* The handler can be suspended before each of these calls.

\* readall, SMALLCHUNK: the buffer for a file that fstat finds empty, and the
\* least by which a full buffer grows
SmallChunk == 8192

\* readall, the buffer allocated after fstat
BufferSize(f) == IF f.len > 0 THEN f.len + 1 ELSE SmallChunk

\* readall, new_buffersize: the size of a buffer found full at n characters
NewBufferSize(n) == n + (IF 256 + n > SmallChunk THEN 256 + n ELSE SmallChunk)

\* the buffer once n characters are in it and another read is due
Grown(size, n) == IF n >= size THEN NewBufferSize(n) ELSE size

\* the number of characters in the pieces read so far
Got(buf) == IF buf = <<>> THEN 0 ELSE buf[Len(buf)].to

\* the pieces of a text up to position b
RECURSIVE UpTo(_, _)
UpTo(text, b) ==
    IF text = <<>> THEN <<>>
    ELSE IF Head(text).to >= b THEN <<Piece(Head(text).recs, b)>>
    ELSE <<Head(text)>> \o UpTo(Tail(text), b)

\* the pieces read so far with the pieces of one more read
Joined(buf, more) ==
    IF buf # <<>> /\ more # <<>> /\ buf[Len(buf)].recs = Head(more).recs
    THEN SubSeq(buf, 1, Len(buf) - 1) \o more
    ELSE buf \o more

\* read(2) at the position the descriptor has reached, into the room the
\* buffer has left: the pieces read, none at or beyond the end of the file
ReadMore(f, size, buf) ==
    IF f.len <= Got(buf) THEN <<>>
    ELSE From(UpTo(f.text, Min(f.len, Grown(size, Got(buf)))), Got(buf))

\* the characters of the pieces: those of each piece's text from the end of
\* the piece before it up to its own end
RECURSIVE PiecesText(_, _)
PiecesText(pieces, a) ==
    IF pieces = <<>> THEN ""
    ELSE SubSeq(DumpText(Head(pieces).recs), a + 1, Head(pieces).to)
         \o PiecesText(Tail(pieces), Head(pieces).to)

\* the characters json.loads skips after the value
Blanks == {" ", "\n", "\r", "\t"}

\* a text without the blanks at its end
RECURSIVE WithoutBlanks(_)
WithoutBlanks(text) ==
    IF text # "" /\ SubSeq(text, Len(text), Len(text)) \in Blanks
    THEN WithoutBlanks(SubSeq(text, 1, Len(text) - 1))
    ELSE text

\* the arrays of the pieces that json.dump writes as the given text
ArraysOf(buf, text) == {buf[j].recs : j \in {i \in DOMAIN buf : DumpText(buf[i].recs) = text}}

\* one of the arrays, [] when there is none
ArrayIn(arrays) == IF arrays = {} THEN <<>> ELSE CHOOSE recs \in arrays : TRUE

\* json.loads of the characters read, line 23: the array whose text they are,
\* blanks after it skipped; any other mixture of texts raises, and the except
\* of line 24 gives []
LoadFrom(buf) == ArrayIn(ArraysOf(buf, WithoutBlanks(PiecesText(buf, 0))))

\* the pairs of records whose handlers both loaded before either wrote, once
\* thread t has loaded
RacedAfterLoad(t) ==
    raced \cup {{threads[t].rec, threads[u].rec} : u \in {v \in Others(t) : threads[v].pc = "open"}}

\* the record an earlier run of the receiver left in the mirror file
EarlierRecord ==
    CallbackRecord(0, TRUE, "text/plain", "", ParseBody("text/plain", "{\"a\":1}").data)

\* the mirror file when the receiver starts: none, or the file of an earlier run
FilesAtStart == {NoFile, WriteText(OpenW(NoFile, -1), <<EarlierRecord>>)}

\* callback(), POST branch, lines 91-114: parse the body, build the record
\* (the timestamp is taken at line 108)
PostBegin(ct, body, micro, agent) ==
    LET p == ParseBody(ct, body)
        rec == CallbackRecord(now, micro, ct, agent, p.data)
    IN  /\ Free
        /\ p.ok
        /\ now < MaxConc + 1
        /\ now' = now + 1
        /\ threads' = Append(threads, NewThread("append", rec))
        /\ overlap' = (overlap \/ \E u \in DOMAIN threads : Writing(u))
        /\ posted' = Append(posted, rec)
        /\ quiet' = FALSE
        /\ UNCHANGED <<callbacks_received, file, req, resp, io, lifetime, sinceClear,
                       lastAck, lastAckLife, acked, diskAtStart,
                       restarts, raced, orphans, asked, evars, xvars>>

\* callback(), line 117: callbacks_received.append(callback_record)
PostAppend(t) ==
    /\ threads[t].pc = "append"
    /\ callbacks_received' = Append(callbacks_received, threads[t].rec)
    /\ threads' = [threads EXCEPT ![t].pc = "load_exists"]
    /\ lifetime' = lifetime + 1
    /\ sinceClear' = sinceClear + 1
    /\ UNCHANGED <<file, req, resp, io, now, lastAck, lastAckLife, posted, acked, quiet,
                   diskAtStart, restarts, raced, overlap, orphans, asked, evars, xvars>>

\* save_callback, line 30, load_callbacks, line 20: os.path.exists; without a
\* file, line 26: return []
PostExists(t) ==
    /\ threads[t].pc = "load_exists"
    /\ IF FileExists(file)
       THEN /\ threads' = [threads EXCEPT ![t].pc = "load_open", ![t].ops = <<"exists">>]
            /\ UNCHANGED raced
       ELSE /\ threads' = [threads EXCEPT ![t].pc = "open", ![t].ops = <<"exists">>,
                                          ![t].local = <<>>]
            /\ raced' = RacedAfterLoad(t)
    /\ UNCHANGED <<rvars, overlap, orphans, asked, evars, xvars>>

\* load_callbacks, line 22: open(CALLBACKS_FILE, 'r'); a file that was removed
\* meanwhile or cannot be read raises, and lines 24-25 return []
PostLoadOpen(t) ==
    /\ threads[t].pc = "load_open"
    /\ IF FileExists(file) /\ file.readable
       THEN /\ threads' = [threads EXCEPT ![t].pc = "load_stat", ![t].fd = file.ino,
                                          ![t].ops = <<"exists", "read">>]
            /\ UNCHANGED raced
       ELSE /\ threads' = [threads EXCEPT ![t].pc = "open", ![t].local = <<>>,
                                          ![t].ops = <<"exists", "read">>]
            /\ raced' = RacedAfterLoad(t)
    /\ UNCHANGED <<rvars, overlap, orphans, asked, evars, xvars>>

\* load_callbacks, line 23, json.load, readall: fstat sizes the buffer by what
\* the opened file holds now, whatever has happened to the name
PostLoadStat(t) ==
    /\ threads[t].pc = "load_stat"
    /\ threads' = [threads EXCEPT ![t].pc = "load_read",
                                  ![t].size = BufferSize(FileOf(threads[t].fd))]
    /\ UNCHANGED <<rvars, raced, overlap, orphans, asked, evars, xvars>>

\* load_callbacks, line 23, json.load, readall: one read(2) of what the opened
\* file holds by now.  A read that returns nothing ends readall: the
\* characters read are parsed, text that does not parse gives [] (lines
\* 24-25), and the descriptor is closed
PostLoadRead(t) ==
    LET more == ReadMore(FileOf(threads[t].fd), threads[t].size, threads[t].buf)
    IN  /\ threads[t].pc = "load_read"
        /\ IF more # <<>>
           THEN /\ threads' = [threads EXCEPT
                                  ![t].size = Grown(threads[t].size, Got(threads[t].buf)),
                                  ![t].buf = Joined(threads[t].buf, more)]
                /\ UNCHANGED <<raced, orphans>>
           ELSE /\ threads' = [threads EXCEPT ![t].pc = "open", ![t].fd = 0, ![t].size = 0,
                                              ![t].buf = <<>>,
                                              ![t].local = LoadFrom(threads[t].buf)]
                /\ raced' = RacedAfterLoad(t)
                /\ orphans' = Held(orphans, threads')
        /\ UNCHANGED <<rvars, overlap, asked, evars, xvars>>

\* save_callback, line 32: open(CALLBACKS_FILE, 'w') truncates the named file
\* or creates it; the descriptor stays with the file it opened
PostOpen(t) ==
    /\ threads[t].pc = "open"
    /\ file' = OpenW(file, threads[t].rec.timestamp)
    /\ threads' = [threads EXCEPT ![t].pc = "dump", ![t].fd = file'.ino,
                                  ![t].ops = Append(threads[t].ops, "write")]
    /\ UNCHANGED <<callbacks_received, req, resp, io, now, lifetime, sinceClear, lastAck,
                   lastAckLife, posted, acked, quiet, diskAtStart, restarts, raced,
                   overlap, orphans, asked, evars, xvars>>

\* save_callback, lines 31 and 33: append, json.dump, close; the text goes to
\* the file the descriptor opened, which may have lost its name meanwhile
PostDump(t) ==
    LET content == Appended(threads[t].local, threads[t].rec)
        mine == FileOf(threads[t].fd)
    IN  /\ threads[t].pc = "dump"
        /\ threads' = [threads EXCEPT ![t].pc = "ack", ![t].fd = 0]
        /\ IF Named(threads[t].fd)
           THEN /\ file' = WriteText(file, content)
                /\ UNCHANGED orphans
           ELSE /\ file' = file
                /\ orphans' = Held((orphans \ {mine}) \cup {WriteText(mine, content)}, threads')
        /\ UNCHANGED <<callbacks_received, req, resp, io, now, lifetime, sinceClear, lastAck,
                       lastAckLife, posted, acked, quiet, diskAtStart, restarts, raced,
                       overlap, asked, evars, xvars>>

\* callback(), lines 120-167: logging, then the acknowledgment or the 500
PostEnd(t) ==
    /\ threads[t].pc = "ack"
    /\ threads' = Without(threads, t)
    /\ req' = Request("POST", "/callback", threads[t].rec.ctype, BodyOf(threads[t].rec.data))
    /\ io' = threads[t].ops
    /\ IF LoggingRaises(threads[t].rec.data)
       THEN /\ resp' = Error500
            /\ UNCHANGED <<lastAck, lastAckLife, acked>>
       ELSE /\ resp' = Ack(callbacks_received)
            /\ lastAck' = Len(callbacks_received)
            /\ lastAckLife' = Len(callbacks_received)
            /\ acked' = Append(acked, threads[t].rec)
    /\ UNCHANGED <<callbacks_received, file, now, lifetime, sinceClear, posted, quiet,
                   diskAtStart, restarts, raced, overlap, orphans, asked, evars, xvars>>

\* clear_webhooks(), line 185: callbacks_received = []
ClearBegin ==
    /\ Free
    /\ asked < MaxAsked
    /\ asked' = asked + 1
    /\ callbacks_received' = <<>>
    /\ threads' = Append(threads, NewThread("exists", NoRecord))
    /\ overlap' = (overlap \/ \E u \in DOMAIN threads : Writing(u))
    /\ sinceClear' = 0
    /\ lastAck' = 0
    /\ posted' = <<>>
    /\ acked' = <<>>
    /\ quiet' = FALSE
    /\ UNCHANGED <<file, req, resp, io, now, lifetime, lastAckLife, diskAtStart,
                   restarts, raced, orphans, evars, xvars>>

\* clear_webhooks(), line 188: os.path.exists; without a file, lines 191-194
ClearExists(t) ==
    /\ threads[t].pc = "exists"
    /\ IF FileExists(file)
       THEN /\ threads' = [threads EXCEPT ![t].pc = "remove"]
            /\ UNCHANGED <<req, resp, io>>
       ELSE /\ threads' = Without(threads, t)
            /\ req' = Request("POST", "/webhooks/clear", "", "")
            /\ resp' = Response(200, 0, 0, <<>>)
            /\ io' = <<"exists">>
    /\ UNCHANGED <<callbacks_received, file, now, lifetime, sinceClear, lastAck,
                   lastAckLife, posted, acked, quiet, diskAtStart, restarts, raced,
                   overlap, orphans, asked, evars, xvars>>

\* clear_webhooks(), lines 189-194: os.remove takes the name away, the file
\* stays with the descriptors that hold it; FileNotFoundError when another
\* clear removed the file meanwhile (answered 500 by Flask)
ClearRemove(t) ==
    /\ threads[t].pc = "remove"
    /\ threads' = Without(threads, t)
    /\ req' = Request("POST", "/webhooks/clear", "", "")
    /\ io' = <<"exists", "remove">>
    /\ IF FileExists(file)
       THEN /\ file' = RemoveFile(file)
            /\ orphans' = Held(orphans \cup {file}, threads')
            /\ resp' = Response(200, 0, 0, <<>>)
       ELSE /\ file' = file
            /\ UNCHANGED orphans
            /\ resp' = Error500
    /\ UNCHANGED <<callbacks_received, now, lifetime, sinceClear, lastAck,
                   lastAckLife, posted, acked, quiet, diskAtStart, restarts, raced,
                   overlap, asked, evars, xvars>>

\* get_webhooks(), line 172, load_callbacks, line 20: os.path.exists; without
\* a file, line 26 and lines 173-179
GetExists ==
    /\ Free
    /\ asked < MaxAsked
    /\ asked' = asked + 1
    /\ IF FileExists(file)
       THEN /\ threads' = Append(threads, NewThread("get_open", NoRecord))
            /\ UNCHANGED <<req, resp, io>>
       ELSE /\ UNCHANGED threads
            /\ req' = Request("GET", "/webhooks", "", "")
            /\ resp' = WebhooksResponse(file)
            /\ io' = <<"exists">>
    /\ UNCHANGED <<callbacks_received, file, now, lifetime, sinceClear, lastAck,
                   lastAckLife, posted, acked, quiet, diskAtStart, restarts, raced,
                   overlap, orphans, evars, xvars>>

\* load_callbacks, line 22: open(CALLBACKS_FILE, 'r'); a file that was removed
\* meanwhile or cannot be read gives [] (lines 24-25) and lines 173-179 answer
GetOpen(t) ==
    /\ threads[t].pc = "get_open"
    /\ IF FileExists(file) /\ file.readable
       THEN /\ threads' = [threads EXCEPT ![t].pc = "get_stat", ![t].fd = file.ino]
            /\ UNCHANGED <<req, resp, io>>
       ELSE /\ threads' = Without(threads, t)
            /\ req' = Request("GET", "/webhooks", "", "")
            /\ resp' = WebhooksResponse(NoFile)
            /\ io' = <<"exists", "read">>
    /\ UNCHANGED <<callbacks_received, file, now, lifetime, sinceClear, lastAck,
                   lastAckLife, posted, acked, quiet, diskAtStart, restarts, raced,
                   overlap, orphans, asked, evars, xvars>>

\* load_callbacks, line 23, json.load, readall: fstat
GetStat(t) ==
    /\ threads[t].pc = "get_stat"
    /\ threads' = [threads EXCEPT ![t].pc = "get_read",
                                  ![t].size = BufferSize(FileOf(threads[t].fd))]
    /\ UNCHANGED <<rvars, raced, overlap, orphans, asked, evars, xvars>>

\* load_callbacks, line 23, json.load, readall: one read(2); after the read
\* that returns nothing the characters read are parsed and get_webhooks(),
\* lines 173-179, answers with what they hold
GetRead(t) ==
    LET more == ReadMore(FileOf(threads[t].fd), threads[t].size, threads[t].buf)
    IN  /\ threads[t].pc = "get_read"
        /\ IF more # <<>>
           THEN /\ threads' = [threads EXCEPT
                                  ![t].size = Grown(threads[t].size, Got(threads[t].buf)),
                                  ![t].buf = Joined(threads[t].buf, more)]
                /\ UNCHANGED <<req, resp, io, orphans>>
           ELSE /\ threads' = Without(threads, t)
                /\ req' = Request("GET", "/webhooks", "", "")
                /\ resp' = AnswerOf(LoadFrom(threads[t].buf))
                /\ io' = <<"exists", "read">>
                /\ orphans' = Held(orphans, threads')
        /\ UNCHANGED <<callbacks_received, file, now, lifetime, sinceClear, lastAck,
                       lastAckLife, posted, acked, quiet, diskAtStart, restarts, raced,
                       overlap, asked, evars, xvars>>

\* the requests of the threads: a JSON body as application/json at a clock
\* reading with microsecond = 0 (alone in the file a text of 309 characters,
\* acknowledged) and a body whose logging raises after the record is stored
\* (335, answered 500)
ConcPosts ==
    {<<"application/json", "{\"a\":1}", FALSE, "">>,
     <<"text/plain", "{\"results\":[1]}", TRUE, "">>}

NextConc ==
    \/ \E q \in ConcPosts : PostBegin(q[1], q[2], q[3], q[4])
    \/ \E t \in DOMAIN threads : PostAppend(t)
    \/ \E t \in DOMAIN threads : PostExists(t)
    \/ \E t \in DOMAIN threads : PostLoadOpen(t)
    \/ \E t \in DOMAIN threads : PostLoadStat(t)
    \/ \E t \in DOMAIN threads : PostLoadRead(t)
    \/ \E t \in DOMAIN threads : PostOpen(t)
    \/ \E t \in DOMAIN threads : PostDump(t)
    \/ \E t \in DOMAIN threads : PostEnd(t)
    \/ ClearBegin
    \/ \E t \in DOMAIN threads : ClearExists(t)
    \/ \E t \in DOMAIN threads : ClearRemove(t)
    \/ GetExists
    \/ \E t \in DOMAIN threads : GetOpen(t)
    \/ \E t \in DOMAIN threads : GetStat(t)
    \/ \E t \in DOMAIN threads : GetRead(t)

\* the receiver starts without a mirror file or with the file of an earlier run
InitConc == (\E f \in FilesAtStart : RStart(f)) /\ CInit /\ EIdle /\ MIdle /\ FIdle

SpecConc == InitConc /\ [][NextConc]_vars

\* the receiver from an empty store: JSON bodies, queries and probes only
\* the requests of the long run: a JSON body under each content type
LongPosts == {<<"application/json", "{\"a\":1}">>, <<"text/plain", "{\"results\":[1]}">>}

NextLong ==
    \/ \E q \in LongPosts : Post(q[1], q[2], TRUE, "", MaxLong)
    \/ \E m \in {"GET", "HEAD", "OPTIONS"} : Probe(m)
    \/ GetWebhooks

SpecLong == Init /\ [][NextLong]_vars

\* ---------------------------------------------------------------- the batch-erasure run

Integrations == {1, 2}

\* what read_emails_from_file returns for the input file
EmailLists == {<<>>, <<"a@x.com">>, <<"a@x.com", "b@y.com">>}

\* outcomes of sg.client.user.profile.get(): a response, an HTTPError raised by
\* the client for an error status, or any other exception
ProfileOutcomes ==
    {[kind |-> "response", status |-> 200], [kind |-> "response", status |-> 204],
     [kind |-> "http_error", status |-> 401], [kind |-> "exception", status |-> 0]}

\* response bodies of the erasure call
EraseBodies ==
    {"", "{\"errors\":\"no permission\"}", "{\"message\":\"m\"}",
     "{\"errors\":\"e\",\"message\":\"m\"}", "{\"id\":\"j1\"}", "[1]", "\"s\"", "oops"}

\* str(e) of the RequestException raised by requests.post
TransportErrors == {"timed out", "connection refused"}

EraseStatuses == {200, 201, 202, 203, 204, 403}

\* outcomes of requests.post(): a response with its text, or a RequestException
\* (body then holds the exception's description)
EraseOutcomes ==
    [kind : {"response"}, status : EraseStatuses, body : EraseBodies]
        \cup [kind : {"transport"}, status : {0}, body : TransportErrors]

\* mutant of TestApiConnection: any response counts as a working connection
TestApiConnectionAnyResponse(o) == o.kind = "response"

\* test_api_connection (lines 56-73)
TestApiConnection(o) == o.kind = "response" /\ o.status = 200

\* mutant of ErrorMessage: the message field is preferred to the errors field
ErrorMessageMessageFirst(body) ==
    CASE body = "" -> "Unknown error"
      [] body = "{\"errors\":\"no permission\"}" -> "no permission"
      [] body = "{\"message\":\"m\"}" -> "m"
      [] body = "{\"errors\":\"e\",\"message\":\"m\"}" -> "m"
      [] body = "{\"id\":\"j1\"}" -> "Unknown error"
      [] body = "[1]" -> "[1]"
      [] body = "\"s\"" -> "s"
      [] OTHER -> body

\* lines 128-137: the error message taken from the response body
\*   no text                         -> "Unknown error" (line 128)
\*   a JSON object                   -> errors, else message, else "Unknown error" (line 133)
\*   another JSON value              -> str() of it (line 135)
\*   text that is not JSON           -> the text (line 137)
ErrorMessage(body) ==
    CASE body = "" -> "Unknown error"
      [] body = "{\"errors\":\"no permission\"}" -> "no permission"
      [] body = "{\"message\":\"m\"}" -> "m"
      [] body = "{\"errors\":\"e\",\"message\":\"m\"}" -> "e"
      [] body = "{\"id\":\"j1\"}" -> "Unknown error"
      [] body = "[1]" -> "[1]"
      [] body = "\"s\"" -> "s"
      [] OTHER -> body

\* line 151: f"Request failed: {e}"
RequestFailed(desc) ==
    CASE desc = "timed out" -> "Request failed: timed out"
      [] desc = "connection refused" -> "Request failed: connection refused"
      [] OTHER -> "Request failed: "

Result(success, hasStatus, status, message, error, processed, attempted) ==
    [success |-> success, has_status |-> hasStatus, status_code |-> status,
     message |-> message, error |-> error,
     emails_processed |-> processed, emails_attempted |-> attempted]

\* mutant of EraseEmails: every status below 300 counts as success
EraseEmailsAny2xx(list, o) ==
    IF o.kind = "transport"
    THEN Result(FALSE, FALSE, 0, "", RequestFailed(o.body), <<>>, list)
    ELSE IF o.status < 300
         THEN Result(TRUE, TRUE, o.status, "Successfully initiated erasure", "", list, <<>>)
         ELSE Result(FALSE, TRUE, o.status, "", ErrorMessage(o.body), <<>>, list)

\* erase_emails (lines 75-153): the result dict for one outcome of the POST
EraseEmails(list, o) ==
    IF o.kind = "transport"
    THEN Result(FALSE, FALSE, 0, "", RequestFailed(o.body), <<>>, list)
    ELSE IF o.status \in {200, 201, 202, 204}
         THEN Result(TRUE, TRUE, o.status, "Successfully initiated erasure", "", list, <<>>)
         ELSE Result(FALSE, TRUE, o.status, "", ErrorMessage(o.body), <<>>, list)

\* mutant of ReportEntry: the message key is read whatever the outcome
ReportEntryMessageOnly(r) ==
    [success |-> r.success, has_status |-> r.has_status, status_code |-> r.status_code,
     message |-> r.message]

\* generate_report, lines 241-247: one entry of the JSON record
ReportEntry(r) ==
    [success |-> r.success, has_status |-> r.has_status, status_code |-> r.status_code,
     message |-> IF r.success THEN r.message ELSE r.error]

Put(f, k, v) == [x \in DOMAIN f \cup {k} |-> IF x = k THEN v ELSE f[x]]

\* mutant of AfterIntegration: the run stops at the first integration that fails
AfterIntegrationStopOnFailure(i, ok) ==
    IF ~ok THEN "done" ELSE IF i = 1 THEN "int2" ELSE "check"

\* mutant of AfterIntegration: an integration that failed is tried again
AfterIntegrationRetry(i, ok) ==
    IF ~ok THEN (IF i = 1 THEN "int1" ELSE "int2") ELSE IF i = 1 THEN "int2" ELSE "check"

\* process_batch: where control goes when integration i is finished (lines 198-199, 219-220)
AfterIntegration(i, ok) == IF i = 1 THEN "int2" ELSE "check"

At(i) == IF i = 1 THEN "int1" ELSE "int2"
AtErase(i) == IF i = 1 THEN "erase1" ELSE "erase2"

EInit ==
    /\ keys \in [Integrations -> BOOLEAN]
    /\ epc = "start"
    /\ emails = <<>>
    /\ wire = <<>>
    /\ results = <<>>
    /\ report = <<>>

\* process_batch, lines 163-173
ReadEmails(list) ==
    /\ epc = "start"
    /\ emails' = list
    /\ epc' = IF list = <<>> THEN "done" ELSE "int1"
    /\ UNCHANGED <<keys, wire, results, report, rvars, cvars, xvars>>

\* process_batch, lines 178 / 199 with the key not set
SkipIntegration(i) ==
    /\ epc = At(i)
    /\ ~keys[i]
    /\ epc' = AfterIntegration(i, TRUE)
    /\ UNCHANGED <<keys, emails, wire, results, report, rvars, cvars, xvars>>

\* process_batch, lines 183 / 204: the pre-flight check
TestConnection(i, o) ==
    /\ epc = At(i)
    /\ keys[i]
    /\ wire' = Append(wire, [call |-> "profile", integration |-> i, emails |-> <<>>,
                             outcome |-> [kind |-> o.kind, status |-> o.status, body |-> ""]])
    /\ epc' = IF TestApiConnection(o) THEN AtErase(i) ELSE AfterIntegration(i, FALSE)
    /\ UNCHANGED <<keys, emails, results, report, rvars, cvars, xvars>>

\* process_batch, lines 184-197 / 205-218: the erasure call and its result
Erase(i, o) ==
    /\ epc = AtErase(i)
    /\ wire' = Append(wire, [call |-> "erase", integration |-> i, emails |-> emails,
                             outcome |-> o])
    /\ results' = Put(results, i, EraseEmails(emails, o))
    /\ epc' = AfterIntegration(i, EraseEmails(emails, o).success)
    /\ UNCHANGED <<keys, emails, report, rvars, cvars, xvars>>

\* process_batch, lines 220-222
NoKeysConfigured ==
    /\ epc = "check"
    /\ ~keys[1] /\ ~keys[2]
    /\ epc' = "done"
    /\ UNCHANGED <<keys, emails, wire, results, report, rvars, cvars, xvars>>

\* process_batch, line 225, and generate_report (lines 227-302)
GenerateReport ==
    /\ epc = "check"
    /\ keys[1] \/ keys[2]
    /\ report' = <<[emails_count |-> Len(emails), emails |-> emails,
                    results |-> [i \in DOMAIN results |-> ReportEntry(results[i])]]>>
    /\ epc' = "done"
    /\ UNCHANGED <<keys, emails, wire, results, rvars, cvars, xvars>>

NextErase ==
    \/ \E list \in EmailLists : ReadEmails(list)
    \/ \E i \in Integrations : SkipIntegration(i)
    \/ \E i \in Integrations, o \in ProfileOutcomes : TestConnection(i, o)
    \/ \E i \in Integrations, o \in EraseOutcomes : Erase(i, o)
    \/ NoKeysConfigured
    \/ GenerateReport

InitErase == RInit /\ CInit /\ EInit /\ MIdle /\ FIdle

SpecErase == InitErase /\ [][NextErase]_vars

\* the script runs to completion: no step of it waits for anything but the
\* HTTP calls, which return or time out
FairSpecErase == SpecErase /\ WF_vars(NextErase)

\* ---------------------------------------------------------------- monitor_results

CheckInterval == 5     \* check_interval
DefaultMaxWait == 30   \* max_wait=30

\* the values max_wait is called with
MaxWaits == {0, CheckInterval, 12, DefaultMaxWait}

\* answers to requests.get(webhook_url + "/webhooks"):
\*   failed    the request raised
\*   status    a response with another status than 200
\*   notjson   200 with a body that is not a JSON object
\*   zero      200 with total 0
\*   none      200 with total > 0 and an empty callbacks list
\*   plain     200 with total > 0, the latest callback's data an object without report_url
\*   report    200 with total > 0, the latest callback's data an object whose
\*             report_url can be sliced (a string, a list)
\*   badurl    200 with total > 0, the latest callback's data an object whose
\*             report_url cannot be sliced (null, a number, a boolean, an object)
\*   null      200 with total > 0, the latest callback's data null (a POST of the JSON
\*             value null is stored by the receiver with data = None)
Answers ==
    {"failed", "status", "notjson", "zero", "none", "plain", "report", "badurl", "null"}

\* lines 142-146: the answer is a 200 whose total is above 0
HasTotal(a) == a \in {"none", "plain", "report", "badurl", "null"}

\* _process_callbacks (lines 159-170): 'report_url' in data raises for data = None
\* (line 164), data['report_url'][:80] for a report_url that cannot be sliced
\* (line 166)
ProcessRaises(a) == a \in {"null", "badurl"}

\* lines 140-153: the iteration reaches return True; an exception raised anywhere
\* in the try block, _process_callbacks included, is swallowed by the bare except
Found(a) == HasTotal(a) /\ ~ProcessRaises(a)

MInit ==
    /\ mpc = "start"
    /\ max_wait = 0
    /\ elapsed = 0
    /\ queries = <<>>
    /\ mret = "none"
    /\ downloaded = FALSE

\* monitor_results, lines 123-134
StartMonitor(w) ==
    /\ mpc = "start"
    /\ max_wait' = w
    /\ elapsed' = 0
    /\ mpc' = "loop"
    /\ UNCHANGED <<queries, mret, downloaded, rvars, cvars, evars, fvars>>

\* monitor_results, lines 136-153: one iteration of the loop
Poll(a) ==
    /\ mpc = "loop"
    /\ elapsed < max_wait
    /\ elapsed' = elapsed + CheckInterval
    /\ queries' = Append(queries, a)
    /\ downloaded' = (downloaded \/ a = "report")
    /\ IF Found(a)
       THEN mret' = "True" /\ mpc' = "done"
       ELSE UNCHANGED <<mret, mpc>>
    /\ UNCHANGED <<max_wait, rvars, cvars, evars, fvars>>

\* monitor_results, lines 136 and 155-157: the loop ends
GiveUp ==
    /\ mpc = "loop"
    /\ ~(elapsed < max_wait)
    /\ mret' = "False"
    /\ mpc' = "done"
    /\ UNCHANGED <<max_wait, elapsed, queries, downloaded, rvars, cvars, evars, fvars>>

NextMonitor ==
    \/ \E w \in MaxWaits : StartMonitor(w)
    \/ \E a \in Answers : Poll(a)
    \/ GiveUp

InitMonitor == RInit /\ CInit /\ EIdle /\ MInit /\ FIdle

SpecMonitor == InitMonitor /\ [][NextMonitor]_vars

\* ---------------------------------------------------------------- read_emails_from_file, text branch

MaxFileLen == 5

\* the characters of the input file
Alphabet == {"a", "@", " ", ",", "\n", "\r"}

\* the characters of the alphabet that str.strip() removes
Whitespace == {" ", "\n", "\r"}

Contents == UNION {[1..n -> Alphabet] : n \in 0..MaxFileLen}

\* open(filepath, 'r'): universal newlines, "\r\n" and a lone "\r" are read as "\n"
RECURSIVE Translate(_)
Translate(text) ==
    IF text = <<>> THEN <<>>
    ELSE IF Head(text) = "\r"
         THEN IF Len(text) > 1 /\ text[2] = "\n"
              THEN <<"\n">> \o Translate(Tail(Tail(text)))
              ELSE <<"\n">> \o Translate(Tail(text))
         ELSE <<Head(text)>> \o Translate(Tail(text))

\* for line in f: the text up to and including each newline, then the rest
RECURSIVE FileLines(_, _)
FileLines(text, cur) ==
    IF text = <<>> THEN (IF cur = <<>> THEN <<>> ELSE <<cur>>)
    ELSE IF Head(text) = "\n"
         THEN <<Append(cur, "\n")>> \o FileLines(Tail(text), <<>>)
         ELSE FileLines(Tail(text), Append(cur, Head(text)))

RECURSIVE LStrip(_)
LStrip(t) == IF t # <<>> /\ Head(t) \in Whitespace THEN LStrip(Tail(t)) ELSE t

RECURSIVE RStrip(_)
RStrip(t) ==
    IF t # <<>> /\ t[Len(t)] \in Whitespace THEN RStrip(SubSeq(t, 1, Len(t) - 1)) ELSE t

\* mutant of Strip: only the end of the line is trimmed
StripRightOnly(t) == RStrip(t)

\* line 45: line.strip()
Strip(t) == LStrip(RStrip(t))

\* line 46: email and '@' in email
Accepted(e) == e # <<>> /\ \E i \in 1..Len(e) : e[i] = "@"

RECURSIVE Collect(_)
Collect(ls) ==
    IF ls = <<>> THEN <<>>
    ELSE IF Accepted(Strip(Head(ls)))
         THEN <<Strip(Head(ls))>> \o Collect(Tail(ls))
         ELSE Collect(Tail(ls))

\* read_emails_from_file, lines 43-47, the loop of the text branch over the
\* text of an existing file
ReadEmailsFromFile(text) == Collect(FileLines(Translate(text), <<>>))

\* ---------------------------------------------------------------- read_emails_from_file, .csv branch

\* str.count(c) for one character
Count(line, c) == Cardinality({i \in 1..Len(line) : line[i] = c})

\* str.count(c + " "): occurrences that do not overlap, from the left
RECURSIVE CountBeforeSpace(_, _)
CountBeforeSpace(line, c) ==
    IF Len(line) < 2 THEN 0
    ELSE IF line[1] = c /\ line[2] = " "
         THEN 1 + CountBeforeSpace(SubSeq(line, 3, Len(line)), c)
         ELSE CountBeforeSpace(Tail(line), c)

\* str.split('\n')
RECURSIVE SplitLF(_, _)
SplitLF(text, cur) ==
    IF text = <<>> THEN <<cur>>
    ELSE IF Head(text) = "\n"
         THEN <<cur>> \o SplitLF(Tail(text), <<>>)
         ELSE SplitLF(Tail(text), Append(cur, Head(text)))

NonEmpty(s) == s # <<>>

\* csv.Sniffer._guess_delimiter: data = list(filter(None, data.split('\n')))
SniffData(sample) == SelectSeq(SplitLF(sample, <<>>), NonEmpty)

\* the position of a character in the ASCII table
Code(c) ==
    CASE c = "\n" -> 10 [] c = "\r" -> 13 [] c = " " -> 32
      [] c = "," -> 44 [] c = "@" -> 64 [] c = "a" -> 97

\* csv.Sniffer.preferred
Preferred == <<",", "\t", ";", " ", ":">>

\* _guess_delimiter, charFrequency of a character over the first m lines:
\* its number of occurrences on each line, in line order
Frequencies(data, m, c) == [i \in 1..m |-> Count(data[i], c)]

\* on how many lines the character occurs f times
Times(freq, f) == Cardinality({i \in DOMAIN freq : freq[i] = f})

\* the first line on which it occurs f times
FirstWith(freq, f) == CHOOSE i \in DOMAIN freq : freq[i] = f /\ \A j \in 1..(i - 1) : freq[j] # f

\* max(items, key=lambda x: x[1]): the number of occurrences met on most
\* lines, the one met first when several are met equally often
Best(freq) ==
    CHOOSE i \in DOMAIN freq :
        /\ FirstWith(freq, freq[i]) = i
        /\ \A j \in DOMAIN freq :
              \/ Times(freq, freq[j]) < Times(freq, freq[i])
              \/ Times(freq, freq[j]) = Times(freq, freq[i]) /\ FirstWith(freq, freq[j]) >= i

\* the mode with the number of lines that have it less the number of lines
\* that do not
ModeOf(freq) ==
    [freq |-> freq[Best(freq)], rows |-> 2 * Times(freq, freq[Best(freq)]) - Len(freq)]

Mode(data, m, c) == ModeOf(Frequencies(data, m, c))

\* v[0] > 0 and v[1] > 0 and v[1] / total >= consistency, at p percent
Meets(v, m, p) == v.freq > 0 /\ v.rows > 0 /\ 100 * v.rows >= p * m

\* the characters whose mode is met on at least p percent of the m lines
Consistent(data, m, p) == {c \in Alphabet : Meets(Mode(data, m, c), m, p)}

\* the inner loop: consistency falls from 1.0 by 0.01 while no character
\* qualifies and it is at least 0.9 (the tenth subtraction gives
\* 0.8999999999999999, so 0.91 is the last level tried)
RECURSIVE DelimsAt(_, _, _)
DelimsAt(data, m, p) ==
    IF p < 91 THEN {}
    ELSE IF Consistent(data, m, p) # {} THEN Consistent(data, m, p)
         ELSE DelimsAt(data, m, p - 1)

\* skipinitialspace of the sniffed dialect
SkipInitialSpace(data, d) == Count(data[1], d) = CountBeforeSpace(data[1], d)

NoDelimiter == [delim |-> "", skip |-> FALSE]

Sniffed(data, d) == [delim |-> d, skip |-> SkipInitialSpace(data, d)]

\* items.sort() on (mode, character) pairs: (w, d) is not after (v, c)
NotAfter(w, d, v, c) ==
    \/ w.freq < v.freq
    \/ w.freq = v.freq /\ w.rows < v.rows
    \/ w.freq = v.freq /\ w.rows = v.rows /\ Code(d) <= Code(c)

\* the choice among several candidates: the first of the preferred list,
\* else the last of the sorted (mode, character) pairs
Dominant(data, m, delims) ==
    IF \E i \in 1..Len(Preferred) : Preferred[i] \in delims
    THEN Preferred[CHOOSE i \in 1..Len(Preferred) :
                       /\ Preferred[i] \in delims
                       /\ \A j \in 1..(i - 1) : Preferred[j] \notin delims]
    ELSE CHOOSE c \in delims : \A d \in delims :
             NotAfter(Mode(data, m, d), d, Mode(data, m, c), c)

\* the delimiter of a non-empty set of candidates
Chosen(data, m, delims) ==
    IF Cardinality(delims) = 1 THEN CHOOSE c \in delims : TRUE
    ELSE Dominant(data, m, delims)

\* _guess_delimiter, iteration k of the loop over chunks of ten lines; the
\* candidates, once there are any, are kept by the later iterations
RECURSIVE GuessDelimiter(_, _)
GuessDelimiter(data, k) ==
    IF 10 * (k - 1) >= Len(data) THEN NoDelimiter
    ELSE IF DelimsAt(data, Min(10 * k, Len(data)), 100) = {}
    THEN GuessDelimiter(data, k + 1)
    ELSE Sniffed(data, Chosen(data, Min(10 * k, Len(data)),
                              DelimsAt(data, Min(10 * k, Len(data)), 100)))

\* csv.Sniffer.sniff for a sample without quote characters
\* (_guess_quote_and_delimiter finds nothing in it)
Sniff(sample) == GuessDelimiter(SniffData(sample), 1)

CsvNewlines == {"\n", "\r"}

\* the reader of the csv module on one line, a character at a time; the quote
\* character of the dialect is '"', which no input of the model contains
RECURSIVE ParseLine(_, _, _, _, _, _)
ParseLine(line, st, fields, cur, delim, skip) ==
    IF line = <<>>
    THEN [ok |-> TRUE,
          row |-> IF st \in {"START_FIELD", "IN_FIELD"} THEN Append(fields, cur) ELSE fields]
    ELSE LET c == Head(line)
             rest == Tail(line)
         IN  CASE st = "START_RECORD" ->
                    IF c \in CsvNewlines
                    THEN ParseLine(rest, "EAT_CRNL", fields, cur, delim, skip)
                    ELSE ParseLine(line, "START_FIELD", fields, cur, delim, skip)
               [] st = "START_FIELD" ->
                    IF c \in CsvNewlines
                    THEN ParseLine(rest, "EAT_CRNL", Append(fields, <<>>), <<>>, delim, skip)
                    ELSE IF c = " " /\ skip
                    THEN ParseLine(rest, "START_FIELD", fields, cur, delim, skip)
                    ELSE IF c = delim
                    THEN ParseLine(rest, "START_FIELD", Append(fields, <<>>), <<>>, delim, skip)
                    ELSE ParseLine(rest, "IN_FIELD", fields, <<c>>, delim, skip)
               [] st = "IN_FIELD" ->
                    IF c \in CsvNewlines
                    THEN ParseLine(rest, "EAT_CRNL", Append(fields, cur), <<>>, delim, skip)
                    ELSE IF c = delim
                    THEN ParseLine(rest, "START_FIELD", Append(fields, cur), <<>>, delim, skip)
                    ELSE ParseLine(rest, "IN_FIELD", fields, Append(cur, c), delim, skip)
               [] st = "EAT_CRNL" ->
                    IF c \in CsvNewlines
                    THEN ParseLine(rest, "EAT_CRNL", fields, cur, delim, skip)
                    ELSE [ok |-> FALSE, row |-> <<>>]

\* csv.reader over a sequence of lines
CsvReader(lines, delim, skip) ==
    [i \in 1..Len(lines) |-> ParseLine(lines[i], "START_RECORD", <<>>, <<>>, delim, skip)]

\* complex(field) succeeds: never for a text over Alphabet, which has no
\* digit, sign, point or j
Numeric(field) == FALSE

\* has_header, thisType: complex (here -1) or the length of the field
TypeOf(field) == IF Numeric(field) THEN -1 ELSE Len(field)

\* the rows after the header that the loop uses (at most 21) and that have
\* as many columns as the header
RowsUsed(rdr) == {i \in 2..Min(Len(rdr), 22) : Len(rdr[i].row) = Len(rdr[1].row)}

\* the types met in a column
ColumnTypes(rdr, col) == {TypeOf(rdr[i].row[col]) : i \in RowsUsed(rdr)}

\* the columns left in columnTypes: those of at most one type
ColumnsKept(rdr) == {col \in 1..Len(rdr[1].row) : Cardinality(ColumnTypes(rdr, col)) <= 1}

\* the header's field is of the type of its column (the vote is -1)
Agrees(rdr, col) ==
    /\ ColumnTypes(rdr, col) # {}
    /\ IF ColumnTypes(rdr, col) = {-1} THEN Numeric(rdr[1].row[col])
       ELSE Len(rdr[1].row[col]) \in ColumnTypes(rdr, col)

\* hasHeader, the sum of the votes
Votes(rdr) ==
    Cardinality({col \in ColumnsKept(rdr) : ~Agrees(rdr, col)})
      - Cardinality({col \in ColumnsKept(rdr) : Agrees(rdr, col)})

\* has_header once the rows of the sample are read
HeaderOf(rdr) ==
    IF \E i \in 1..Len(rdr) : ~rdr[i].ok THEN "raise"
    ELSE IF Votes(rdr) > 0 THEN "yes" ELSE "no"

\* has_header with the sniffed dialect d.  The sample is read through
\* StringIO, whose lines end at "\n" only; the loop fetches at most 22 rows
\* after the header.
HasHeaderWith(sample, d) ==
    IF d.delim = "" THEN "raise"
    ELSE HeaderOf(CsvReader(FirstN(FileLines(sample, <<>>), 23), d.delim, d.skip))

\* line 30: csv.Sniffer().has_header(sample) if sample else False; "raise",
\* "yes" or "no"
HasHeader(sample) ==
    IF sample = <<>> THEN "no" ELSE HasHeaderWith(sample, Sniff(sample))

\* open(filepath, 'r', newline=''): the lines end at "\n", "\r" or "\r\n" and
\* keep their endings
RECURSIVE RawLines(_, _)
RawLines(text, cur) ==
    IF text = <<>> THEN (IF cur = <<>> THEN <<>> ELSE <<cur>>)
    ELSE IF Head(text) = "\n"
    THEN <<Append(cur, "\n")>> \o RawLines(Tail(text), <<>>)
    ELSE IF Head(text) = "\r"
    THEN IF Len(text) > 1 /\ text[2] = "\n"
         THEN <<cur \o <<"\r", "\n">> >> \o RawLines(Tail(Tail(text)), <<>>)
         ELSE <<Append(cur, "\r")>> \o RawLines(Tail(text), <<>>)
    ELSE RawLines(Tail(text), Append(cur, Head(text)))

\* lines 35-40: the first column of every non-empty row, stripped, when it is
\* non-empty and contains '@'
RECURSIVE CollectFirstColumn(_)
CollectFirstColumn(rows) ==
    IF rows = <<>> THEN <<>>
    ELSE IF Head(rows).row # <<>> /\ Accepted(Strip(Head(rows).row[1]))
         THEN <<Strip(Head(rows).row[1])>> \o CollectFirstColumn(Tail(rows))
         ELSE CollectFirstColumn(Tail(rows))

\* lines 31-40 with the answer of has_header and the rows of the file
ReadRows(has_header, reader) ==
    IF \/ has_header = "raise"
       \/ has_header = "yes" /\ reader = <<>>
       \/ \E i \in 1..Len(reader) : ~reader[i].ok
    THEN [raised |-> TRUE, emails |-> <<>>]
    ELSE [raised |-> FALSE,
          emails |-> CollectFirstColumn(IF has_header = "yes" THEN Tail(reader) ELSE reader)]

\* lines 26-40, the .csv branch over the text of an existing file: the
\* emails, or raised when an exception leaves the branch
ReadEmailsFromCsv(text) ==
    ReadRows(HasHeader(FirstN(text, 1024)), CsvReader(RawLines(text, <<>>), ",", FALSE))

\* ---------------------------------------------------------------- read_emails_from_file

\* the paths of the script (lines 308-313): emails.csv, else emails-26082025.txt
Paths == {"emails.csv", "emails-26082025.txt"}

\* line 25: filepath.endswith('.csv')
IsCsv(path) == path = "emails.csv"

\* the file at the path: absent, present but not readable as text (no
\* permission, bytes that do not decode), or present with a text
FInit ==
    /\ filepath \in Paths
    /\ on_disk \in BOOLEAN
    /\ readable \in (IF on_disk THEN BOOLEAN ELSE {FALSE})
    /\ text_in \in (IF readable THEN Contents ELSE {<<>>})
    /\ rpc = "start"
    /\ printed = ""
    /\ out = <<>>

\* read_emails_from_file, lines 20-54: the .csv branch or the text branch,
\* FileNotFoundError (lines 48-50) and any other exception (lines 51-53) end
\* the process with status 1, else the list is returned (line 54)
ReadFile ==
    /\ rpc = "start"
    /\ IF ~on_disk
       THEN out' = <<>> /\ rpc' = "exit" /\ printed' = "File not found"
       ELSE IF ~readable
       THEN out' = <<>> /\ rpc' = "exit" /\ printed' = "Error reading file"
       ELSE IF IsCsv(filepath)
       THEN LET r == ReadEmailsFromCsv(text_in)
            IN  IF r.raised
                THEN out' = <<>> /\ rpc' = "exit" /\ printed' = "Error reading file"
                ELSE out' = r.emails /\ rpc' = "done" /\ printed' = ""
       ELSE out' = ReadEmailsFromFile(text_in) /\ rpc' = "done" /\ printed' = ""
    /\ UNCHANGED <<filepath, on_disk, readable, text_in, rvars, cvars, evars, mvars>>

NextRead == ReadFile

InitRead == RInit /\ CInit /\ EIdle /\ MIdle /\ FInit

SpecRead == InitRead /\ [][NextRead]_vars

\* ---------------------------------------------------------------- vocabulary of the claims

\* the array a reader of the file finds in it
DiskArray(f) == IF f.st = "valid" THEN f.recs ELSE <<>>

IsAck == req.method = "POST" /\ req.path = "/callback" /\ resp.status = 200
IsQuery == req.method = "GET" /\ req.path = "/webhooks"
IsClear == req.method = "POST" /\ req.path = "/webhooks/clear"
IsProbe == req.path = "/callback" /\ req.method \in {"GET", "HEAD", "OPTIONS"}
IsPost == req.method = "POST" /\ req.path = "/callback"

\* ---------------------------------------------------------------- C1

\* C1: from an empty store, after N POSTs with JSON bodies handled one after
\* another, GET /webhooks reports total = N and exactly the last min(10, N)
\* records, in arrival order.
C1_QueryAfterNPosts ==
    IsQuery =>
        LET n == Len(posted)
            k == IF n < 10 THEN n ELSE 10
        IN  /\ resp.total = n
            /\ Len(resp.callbacks) = k
            /\ \A i \in 1..k : resp.callbacks[i] = posted[n - k + i]
            /\ \A i \in 1..k, j \in 1..k :
                   i < j => resp.callbacks[i].timestamp < resp.callbacks[j].timestamp

C1_Witness ==
    IsQuery /\ Len(posted) = 11 /\ Len(resp.callbacks) = 10 /\ resp.total = 11

\* ---------------------------------------------------------------- C2

\* C2: POST /webhooks/clear always leaves the in-memory list empty and the
\* mirror file absent, and a GET /webhooks right after it reports total 0 and
\* no callbacks.
C2_ClearEmptiesBoth ==
    /\ [][IsClear' => /\ callbacks_received' = <<>>
                      /\ file'.st = "absent"
                      /\ resp'.status = 200]_vars
    /\ [][(IsClear /\ IsQuery') => (resp'.total = 0 /\ resp'.callbacks = <<>>)]_vars

C2_Witness ==
    IsClear /\ lifetime > 0 /\ callbacks_received = <<>> /\ file.st = "absent"

\* ---------------------------------------------------------------- C3

\* C3 as stated: the acknowledged callback_id grows from one acknowledged POST
\* to the next within a process lifetime and equals the number of records
\* received in that lifetime, whatever requests come in between.
C3_Original ==
    [][IsAck' => (resp'.callback_id = lifetime' /\ resp'.callback_id > lastAckLife)]_vars

\* C3 amended: the acknowledged callback_id equals the number of records
\* received since the process started or since the last clear, and grows from
\* one acknowledged POST to the next as long as no clear comes in between.
C3_CallbackIdSinceClear ==
    [][IsAck' => (resp'.callback_id = sinceClear' /\ resp'.callback_id > lastAck)]_vars

C3_Witness ==
    IsAck /\ resp.callback_id = 1 /\ lifetime = 3 /\ sinceClear = 1

\* ---------------------------------------------------------------- C4

\* C4 as stated: every POST on /callback appends exactly one record to the list
\* and to the file and is answered 200; an unparseable body is stored raw.
C4_Original ==
    [][IsPost' =>
        /\ Len(callbacks_received') = Len(callbacks_received) + 1
        /\ Len(DiskArray(file')) = Len(DiskArray(file)) + 1
        /\ resp'.status = 200
        /\ (req'.body = "not json" =>
               callbacks_received'[Len(callbacks_received')].data
                   = [raw |-> TRUE, value |-> "not json"])]_vars

\* C4 amended: a POST declared application/json whose body is empty or not JSON
\* is answered 500 and stores nothing; every other POST appends exactly one
\* record to the list and to the file, an unparseable body as raw text, and is
\* answered 200 unless its "results" list holds a non-object entry, which is
\* answered 500 with the record kept.
C4_PostStoresOrRejects ==
    [][IsPost' =>
        IF req'.ctype = "application/json" /\ req'.body \in {"", "not json"}
        THEN /\ resp'.status = 500
             /\ callbacks_received' = callbacks_received
             /\ file' = file
        ELSE /\ Len(callbacks_received') = Len(callbacks_received) + 1
             /\ IsPrefix(callbacks_received, callbacks_received')
             /\ Len(DiskArray(file')) = Len(DiskArray(file)) + 1
             /\ IsPrefix(DiskArray(file), DiskArray(file'))
             /\ DiskArray(file')[Len(DiskArray(file'))]
                    = callbacks_received'[Len(callbacks_received')]
             /\ callbacks_received'[Len(callbacks_received')].data.raw
                    = (req'.body = "not json")
             /\ callbacks_received'[Len(callbacks_received')].data.value
                    = (IF req'.body = "" THEN "{}" ELSE req'.body)
             /\ resp'.status = (IF req'.body = "{\"results\":[1]}" THEN 500 ELSE 200)]_vars

C4_Witness ==
    /\ IsAck /\ req.ctype = "text/plain" /\ req.body = "not json"
    /\ callbacks_received # <<>>
    /\ callbacks_received[Len(callbacks_received)].data = [raw |-> TRUE, value |-> "not json"]
    /\ DiskArray(file) # <<>>
    /\ DiskArray(file)[Len(DiskArray(file))].data = [raw |-> TRUE, value |-> "not json"]

\* ---------------------------------------------------------------- C5

\* C5: the total of GET /webhooks is the number of records in the file, not the
\* length of the list; the first POST after a restart with k records on disk
\* is acknowledged with 1 while the file then holds k + 1.
C5_TotalFromDisk ==
    /\ [](IsQuery => resp.total = (IF file.st = "valid" THEN Len(file.recs) ELSE 0))
    /\ [][(quiet /\ IsAck') =>
            (resp'.callback_id = 1 /\ file'.st = "valid"
             /\ Len(file'.recs) = diskAtStart + 1)]_vars

C5_Witness ==
    /\ IsQuery /\ restarts > 0 /\ diskAtStart > 0
    /\ lastAck = 1 /\ Len(callbacks_received) = 1
    /\ resp.total = diskAtStart + 1

\* ---------------------------------------------------------------- C6

\* C6: GET, HEAD and OPTIONS on /callback leave the list and the file as they
\* were, perform no file operation and are answered 200.
C6_ProbesAreReadOnly ==
    [][IsProbe' => /\ callbacks_received' = callbacks_received
                   /\ file' = file
                   /\ io' = <<>>
                   /\ resp'.status = 200]_vars

C6_Witness ==
    IsProbe /\ req.method = "HEAD" /\ callbacks_received # <<>> /\ file.st = "valid"

\* ---------------------------------------------------------------- C7

\* C7: for every request other than POST /webhooks/clear, the list and the
\* on-disk array before the request are prefixes of what they are after it,
\* also when the mirror file cannot be read or parsed at the time of a POST.
C7_AppendOnly ==
    [][(req' # NoRequest /\ ~IsClear') =>
          /\ IsPrefix(callbacks_received, callbacks_received')
          /\ IsPrefix(IF file.st = "valid" THEN file.recs ELSE <<>>,
                      IF file'.st = "valid" THEN file'.recs ELSE <<>>)]_vars

\* ---------------------------------------------------------------- C8

\* no handler is in flight
Quiescent == threads = <<>>

\* C8: when two POST handlers both load the file before either writes it and
\* both are acknowledged, the file is without at least one of the two records,
\* while the list holds both when both requests arrived after the last clear
\* began; when handlers run one at a time no acknowledged record is missing
\* from the file.
C8_LostUpdate ==
    /\ \A pair \in raced :
          pair \subseteq Range(acked) =>
              /\ \E r \in pair : r \notin Range(DiskArray(file))
              /\ pair \subseteq Range(posted) => pair \subseteq Range(callbacks_received)
    /\ (~overlap /\ Quiescent) => Range(acked) \subseteq Range(DiskArray(file))

\* two handlers loaded the array of an earlier run, both were acknowledged,
\* and the file holds that array and one of the two records while the list
\* holds both
C8_Witness ==
    \E pair \in raced :
        /\ pair \subseteq Range(acked)
        /\ Quiescent
        /\ file.st = "valid"
        /\ Len(file.recs) = 2
        /\ file.recs[1] = EarlierRecord
        /\ Cardinality(pair \cap Range(file.recs)) = 1
        /\ pair \subseteq Range(callbacks_received)

\* ---------------------------------------------------------------- C9

ProfileCalls(i) ==
    {n \in 1..Len(wire) : wire[n].call = "profile" /\ wire[n].integration = i}
EraseCalls(i) ==
    {n \in 1..Len(wire) : wire[n].call = "erase" /\ wire[n].integration = i}
Passed(n) == wire[n].outcome.kind = "response" /\ wire[n].outcome.status = 200

\* C9: the erasure request of an integration is issued only after its pre-flight
\* check returned 200; after a check with another status or a transport failure
\* no erasure request is sent for it and no result is recorded for it.
C9_EraseOnlyAfterPreflight ==
    \A i \in Integrations :
        /\ \A e \in EraseCalls(i) : \E c \in ProfileCalls(i) : c < e /\ Passed(c)
        /\ (i \in DOMAIN results) => EraseCalls(i) # {}
        /\ \A c \in ProfileCalls(i) :
               ~Passed(c) => (EraseCalls(i) = {} /\ i \notin DOMAIN results)

C9_Witness ==
    /\ epc = "done"
    /\ \E c \in ProfileCalls(1) : ~Passed(c) /\ wire[c].outcome.status = 204
    /\ EraseCalls(1) = {} /\ 1 \notin DOMAIN results
    /\ \E c \in ProfileCalls(2) : Passed(c)
    /\ EraseCalls(2) # {} /\ 2 \in DOMAIN results

\* ---------------------------------------------------------------- C10

\* C10: whatever happened to Integration 1, Integration 2, when its key is set,
\* gets its own pre-flight check and, if that passes, its own erasure request
\* with the full address list, and the run ends by writing the report.
C10_IntegrationsIndependent ==
    /\ [](( epc = "done" /\ emails # <<>> /\ keys[2] ) =>
            /\ Cardinality(ProfileCalls(2)) = 1
            /\ \A c \in ProfileCalls(2) :
                   Passed(c) => \E e \in EraseCalls(2) : e > c /\ wire[e].emails = emails
            /\ report # <<>>
            /\ report[1].emails = emails
            /\ DOMAIN report[1].results = DOMAIN results)
    /\ <>(epc = "done")

C10_Witness ==
    /\ epc = "done" /\ keys[1] /\ keys[2] /\ Len(emails) = 2
    /\ 1 \in DOMAIN results /\ ~results[1].success /\ ~results[1].has_status
    /\ 2 \in DOMAIN results /\ results[2].success
    /\ \E e \in EraseCalls(2) : wire[e].emails = emails
    /\ report # <<>>

\* ---------------------------------------------------------------- C11

\* C11: in one run each integration receives at most one pre-flight request and
\* at most one erasure request, whatever the outcomes, and the erasure request
\* carries the whole address list.
C11_NoRetries ==
    \A i \in Integrations :
        /\ Cardinality(ProfileCalls(i)) <= 1
        /\ Cardinality(EraseCalls(i)) <= 1
        /\ \A e \in EraseCalls(i) : wire[e].emails = emails
        /\ Len(wire) = Cardinality(ProfileCalls(1)) + Cardinality(EraseCalls(1))
                         + Cardinality(ProfileCalls(2)) + Cardinality(EraseCalls(2))

C11_Witness ==
    /\ epc = "done" /\ Len(emails) = 2
    /\ Len(wire) = 3
    /\ \E e \in EraseCalls(1) : wire[e].outcome.status = 403 /\ wire[e].emails = emails
    /\ \E c \in ProfileCalls(2) : ~Passed(c)

\* ---------------------------------------------------------------- C12

\* the erasure call of integration i
EraseCallOf(i) == CHOOSE e \in EraseCalls(i) : TRUE

\* C12: for every HTTP response to the erasure call, success is true exactly for
\* the statuses 200, 201, 202, 204; a success carries the status and the input
\* list as emails_processed, a failure the input list as emails_attempted.
C12_SuccessStatuses ==
    \A i \in DOMAIN results :
        LET o == wire[EraseCallOf(i)].outcome
            r == results[i]
        IN  o.kind = "response" =>
              /\ r.success = (o.status = 200 \/ o.status = 201 \/ o.status = 202 \/ o.status = 204)
              /\ r.success => (r.has_status /\ r.status_code = o.status
                               /\ r.emails_processed = emails)
              /\ ~r.success => r.emails_attempted = emails

C12_Witness ==
    /\ 1 \in DOMAIN results /\ 2 \in DOMAIN results /\ Len(emails) = 2
    /\ wire[EraseCallOf(1)].outcome.status = 204 /\ results[1].success
    /\ results[1].emails_processed = emails
    /\ wire[EraseCallOf(2)].outcome.status = 203 /\ ~results[2].success
    /\ results[2].emails_attempted = emails

\* ---------------------------------------------------------------- C13

FailedResponse(i) ==
    /\ i \in DOMAIN results
    /\ wire[EraseCallOf(i)].outcome.kind = "response"
    /\ ~results[i].success

\* C13 as stated: on a non-success status the error is the errors field of the
\* body if present, else its message field if present, else the raw body text.
C13_Original ==
    \A i \in Integrations :
        FailedResponse(i) =>
            LET body == wire[EraseCallOf(i)].outcome.body
            IN  results[i].error =
                  CASE body = "{\"errors\":\"no permission\"}" -> "no permission"
                    [] body = "{\"errors\":\"e\",\"message\":\"m\"}" -> "e"
                    [] body = "{\"message\":\"m\"}" -> "m"
                    [] OTHER -> body

\* C13 amended: the error is the errors field of the body if it is a JSON object
\* that has one, else its message field if it has one; the raw body text if the
\* body is not JSON; the string form of the value if the body is JSON but no
\* object; and the fixed text "Unknown error" if the body is empty or is a JSON
\* object with neither field. Status 403 with {"errors":"no permission"} gives
\* success = false and error = "no permission".
C13_ErrorPreference ==
    \A i \in Integrations :
        FailedResponse(i) =>
            LET body == wire[EraseCallOf(i)].outcome.body
                err == results[i].error
            IN  /\ body = "{\"errors\":\"no permission\"}" => err = "no permission"
                /\ body = "{\"errors\":\"e\",\"message\":\"m\"}" => err = "e"
                /\ body = "{\"message\":\"m\"}" => err = "m"
                /\ body = "oops" => err = "oops"
                /\ body = "[1]" => err = "[1]"
                /\ body = "\"s\"" => err = "s"
                /\ body \in {"", "{\"id\":\"j1\"}"} => err = "Unknown error"

C13_Witness ==
    /\ FailedResponse(1) /\ FailedResponse(2)
    /\ wire[EraseCallOf(1)].outcome.status = 403
    /\ wire[EraseCallOf(1)].outcome.body = "{\"errors\":\"no permission\"}"
    /\ results[1].error = "no permission"
    /\ wire[EraseCallOf(2)].outcome.body = "{\"id\":\"j1\"}"
    /\ results[2].error = "Unknown error"

\* ---------------------------------------------------------------- C14

TransportFailed(i) ==
    i \in DOMAIN results /\ wire[EraseCallOf(i)].outcome.kind = "transport"

\* C14: a transport failure of the erasure call gives a result with success =
\* false, no status_code and an error embedding the exception's description; the
\* run goes on, and the JSON record of that integration has success = false,
\* status_code = null and that error as its message.
C14_TransportFailure ==
    /\ [](\A i \in Integrations :
            TransportFailed(i) =>
              LET desc == wire[EraseCallOf(i)].outcome.body
                  text == IF desc = "timed out" THEN "Request failed: timed out"
                          ELSE "Request failed: connection refused"
              IN  /\ ~results[i].success
                  /\ ~results[i].has_status
                  /\ results[i].error = text
                  /\ results[i].emails_attempted = emails
                  /\ epc = "done" =>
                       /\ report # <<>>
                       /\ i \in DOMAIN report[1].results
                       /\ ~report[1].results[i].success
                       /\ ~report[1].results[i].has_status
                       /\ report[1].results[i].message = text)
    /\ []((\E i \in Integrations : TransportFailed(i)) => <>(epc = "done"))

C14_Witness ==
    /\ epc = "done" /\ TransportFailed(1) /\ report # <<>>
    /\ report[1].results[1].message = "Request failed: timed out"
    /\ 2 \in DOMAIN results /\ results[2].success

\* the first query that answered 200 with total > 0, 0 if none did
FirstResult ==
    IF \E k \in 1..Len(queries) : HasTotal(queries[k])
    THEN CHOOSE k \in 1..Len(queries) :
            HasTotal(queries[k]) /\ \A j \in 1..(k - 1) : ~HasTotal(queries[j])
    ELSE 0

\* C15: monitor_results issues at most ceil(max_wait / 5) queries, one per
\* 5-second interval; the first query answered 200 with total > 0 is the last
\* one and the call has returned True after it; a call that returned without
\* such an answer returned False.
C15_MonitorContract ==
    /\ elapsed = CheckInterval * Len(queries)
    /\ mpc # "start" => CheckInterval * Len(queries) < max_wait + CheckInterval
    /\ FirstResult # 0 =>
          /\ Len(queries) = FirstResult
          /\ mpc = "done"
          /\ mret = "True"
    /\ (mpc = "done" /\ FirstResult = 0) => mret = "False"

\* the positions of the input where a line ends: "\n", "\r\n" or a lone "\r"
LineEnds(text) ==
    {i \in 1..Len(text) :
        \/ text[i] = "\n"
        \/ text[i] = "\r" /\ ~(i < Len(text) /\ text[i + 1] = "\n")}

\* the positions of the input where a line starts
LineStarts(text) ==
    {i \in 1..Len(text) : i = 1 \/ (i - 1) \in LineEnds(text)}

\* the line that starts at position s, its terminator included
LineAt(text, s) ==
    LET ends == {e \in LineEnds(text) : e >= s}
        last == IF ends = {} THEN Len(text)
                ELSE CHOOSE e \in ends : \A f \in ends : e <= f
    IN  SubSeq(text, s, last)

\* the k-th line of the input
NthLine(text, k) ==
    LineAt(text, CHOOSE s \in LineStarts(text) :
                    Cardinality({t \in LineStarts(text) : t < s}) = k - 1)

\* t without its leading and trailing whitespace
Trimmed(t) ==
    LET solid == {i \in 1..Len(t) : t[i] \notin Whitespace}
    IN  IF solid = {} THEN <<>>
        ELSE SubSeq(t, CHOOSE i \in solid : \A j \in solid : i <= j,
                       CHOOSE i \in solid : \A j \in solid : i >= j)

IsCandidate(e) == e # <<>> /\ "@" \in Range(e)

\* the trimmed lines of the input, in input order
TrimmedLines(text) ==
    [k \in 1..Cardinality(LineStarts(text)) |-> Trimmed(NthLine(text, k))]

\* C16: for a readable plain-text file (a path that does not end in .csv),
\* read_emails_from_file returns, and returns exactly the trimmed lines of the
\* file that are non-empty and contain '@', in input order, duplicates kept.
C16_ReaderKeepsCandidates ==
    (rpc # "start" /\ ~IsCsv(filepath) /\ on_disk /\ readable) =>
        /\ rpc = "done"
        /\ out = SelectSeq(TrimmedLines(text_in), IsCandidate)

\* an address, a line without '@' and the address again, the first line
\* ended by a lone carriage return
C16_Witness ==
    /\ rpc = "done"
    /\ ~IsCsv(filepath)
    /\ on_disk /\ readable
    /\ text_in = <<"@", "\r", "a", "\n", "@">>
    /\ out = << <<"@">>, <<"@">> >>

IsSuffix(a, b) ==
    /\ Len(a) <= Len(b)
    /\ a = SubSeq(b, Len(b) - Len(a) + 1, Len(b))

\* C17: between requests handled one at a time, the list of a process started
\* with no file (or an empty one) equals the array in the file, an absent file
\* counting as empty, whatever the requests were answered; the list of a
\* process started with records in the file is a suffix of that array.
C17_MemoryMirrorsDisk ==
    /\ diskAtStart = 0 => callbacks_received = DiskArray(file)
    /\ IsSuffix(callbacks_received, DiskArray(file))

\* a second process, started on the file the first one built from nothing, has
\* answered a POST with 500 after storing its record
C17_Witness ==
    /\ restarts > 0 /\ diskAtStart > 0
    /\ IsPost /\ resp.status = 500
    /\ Len(posted) > Len(acked)
    /\ Len(callbacks_received) > 0
    /\ Len(DiskArray(file)) > Len(callbacks_received)
    /\ callbacks_received[Len(callbacks_received)] = posted[Len(posted)]

====
